---- MODULE Spec2Model ----
(***************************************************************************)
(* A model of asn1ate/sema.py: the two dependency-ordering algorithms      *)
(* (topological_sort, dependency_sort), the Module facade (user_types,     *)
(* resolve_type_decl), the process-wide unnamed-member counter, the        *)
(* ValueListType auto-numbering pass and the traversal of the node trees   *)
(* (children, descendants, references).                                    *)
(*                                                                         *)
(* Each part has its own specification (SpecTopo and SpecTopoFair, SpecDep, *)
(* SpecModule, SpecProcess, SpecValueList, SpecTree); the variables of the *)
(* parts a specification does not run stay at their idle values.           *)
(***************************************************************************)
EXTENDS Integers, Sequences, FiniteSets, TLC

\* Number of distinct reference names an input may define or refer to.
MaxNames == 3

Names == 1..MaxNames

----------------------------------------------------------------------------
\* Generic helpers

\* All orders in which a Python set with elements S can be iterated.
Orders(S) ==
    {s \in [1..Cardinality(S) -> S] :
        \A i, j \in 1..Cardinality(S) : i # j => s[i] # s[j]}

SeqToSet(s) == {s[i] : i \in 1..Len(s)}

\* list.index(x): position of the first occurrence of x (0 when absent,
\* where Python raises ValueError).
ListIndex(s, x) ==
    IF x \in SeqToSet(s)
    THEN CHOOSE i \in 1..Len(s) : s[i] = x /\ \A j \in 1..(i-1) : s[j] # x
    ELSE 0

Min(a, b) == IF a < b THEN a ELSE b

----------------------------------------------------------------------------
VARIABLES
    \* input of topological_sort / dependency_sort: the list of assignments.
    \* The assignment at position i has the reference name i and
    \* assignments[i] is its references(), a set of names
    assignments,
    \* topological_sort locals
    graph, roots, topological_order, tpc, tresult,
    \* dependency_sort locals; callstack holds the active strongconnect
    \* calls, pending the nodes `for node in graph` has still to yield, in order
    dgraph, index_counter, stack, lowlinks, index, dresult,
    callstack, pending, dpc,
    \* a Module: self.assignments and self._user_types; builds counts the
    \* executions of the index-building branch of user_types()
    self_assignments, self_user_types, builds,
    \* resolve_type_decl: the active calls' arguments (innermost last), the
    \* outermost argument, the control position and the returned value
    rstack, rarg, rpc, rresult,
    \* the process: the global _unnamed_counter, the number of
    \* build_semantic_model invocations started, and the NamedType nodes
    \* built so far (identifier, whether the source named it, invocation)
    unnamed_counter, invocations, named_types,
    \* ValueListType.__init__: the named-value tokens of elements[1] (each an
    \* explicit value or None; NoList when len(elements) = 1),
    \* self.named_values, the position of the fix-up loop
    value_tokens, named_values, idx, vpc,
    \* the sema nodes constructed so far, in order of construction: nodes[n]
    \* is the class of node n, its name attribute and its member variables;
    \* the assignment references() was last called on and what it returned
    nodes, ref_target, ref_result

topoVars == <<graph, roots, topological_order, tpc, tresult>>

depVars == <<dgraph, index_counter, stack, lowlinks, index, dresult,
             callstack, pending, dpc>>

moduleVars == <<self_assignments, self_user_types, builds,
                rstack, rarg, rpc, rresult>>

processVars == <<unnamed_counter, invocations, named_types>>

valueListVars == <<value_tokens, named_values, idx, vpc>>

treeVars == <<nodes, ref_target, ref_result>>

vars == <<assignments, topoVars, depVars, moduleVars, processVars,
          valueListVars, treeVars>>

\* What the steps of one algorithm leave alone: the other algorithms' state.
outsideTopo == <<depVars, moduleVars, processVars, valueListVars, treeVars>>

outsideDep == <<topoVars, moduleVars, processVars, valueListVars, treeVars>>

outsideModule == <<assignments, topoVars, depVars, processVars,
                   valueListVars, treeVars>>

outsideProcess == <<assignments, topoVars, depVars, moduleVars,
                    valueListVars, treeVars>>

outsideValueList == <<assignments, topoVars, depVars, moduleVars,
                      processVars, treeVars>>

outsideTree == <<assignments, topoVars, depVars, moduleVars,
                 processVars, valueListVars>>

\* Every list of assignments with pairwise distinct reference names, each
\* referring to any set of names (names of the list, its own included, or
\* names no assignment of the list has). A name stands for the position of
\* its assignment in the list, so the lists cover every order in which the
\* assignments of a graph can be given; names above the length of the list
\* are names no assignment defines.
AssignmentInputs ==
    UNION {[1..n -> SUBSET Names] : n \in 0..MaxNames}

\* The keys of a dict built from the assignments, in iteration order (the
\* order of insertion).
KeysInOrder(d) ==
    SelectSeq([i \in 1..Len(assignments) |-> i], LAMBDA k : k \in DOMAIN d)

reference_name(a) == a

references(a) == assignments[a]

----------------------------------------------------------------------------
\* topological_sort

IdleTopo ==
    /\ graph = <<>>
    /\ roots = <<>>
    /\ topological_order = <<>>
    /\ tpc = "idle"
    /\ tresult = <<>>

has_predecessor_selfless(g, node) ==
    \E k \in DOMAIN g \ {node} : node \in g[k]

has_predecessor_never(g, node) == FALSE

has_predecessor(g, node) ==
    \E k \in DOMAIN g : node \in g[k]

InsertBack(order, root) == order \o <<root>>

\* topological_order.insert(0, root)
InsertFront(order, root) == <<root>> \o order

\* graph.pop(root, set()): the value popped and the remaining dict
GraphPopValue(g, root) == IF root \in DOMAIN g THEN g[root] ELSE {}

GraphPopRest(g, root) == [n \in DOMAIN g \ {root} |-> g[n]]

\* sorted(assignments, key=lambda a: topological_order.index(a.reference_name()))
SortedByOrder(order) ==
    CHOOSE s \in Orders(DOMAIN assignments) :
        \A i, j \in 1..Len(s) :
            i < j => ListIndex(order, reference_name(s[i]))
                       < ListIndex(order, reference_name(s[j]))

IdleDep ==
    /\ dgraph = <<>>
    /\ index_counter = 0
    /\ stack = <<>>
    /\ lowlinks = <<>>
    /\ index = <<>>
    /\ dresult = <<>>
    /\ callstack = <<>>
    /\ pending = <<>>
    /\ dpc = "idle"

NoDecl == [kind |-> "None", type_name |-> "None"]

IdleModule ==
    /\ self_assignments = <<>>
    /\ self_user_types = <<>>
    /\ builds = 0
    /\ rstack = <<>>
    /\ rarg = NoDecl
    /\ rpc = "idle"
    /\ rresult = NoDecl

\* line 763: _unnamed_counter = 0, nothing built
IdleProcess ==
    /\ unnamed_counter = 0
    /\ invocations = 0
    /\ named_types = <<>>

IdleValueList ==
    /\ value_tokens = <<>>
    /\ named_values = <<>>
    /\ idx = 0
    /\ vpc = "idle"

IdleTree ==
    /\ nodes = <<>>
    /\ ref_target = 0
    /\ ref_result = {}

InitTopo ==
    /\ assignments \in AssignmentInputs
    /\ graph = <<>>
    /\ roots = <<>>
    /\ topological_order = <<>>
    /\ tpc = "start"
    /\ tresult = <<>>
    /\ IdleDep
    /\ IdleModule
    /\ IdleProcess
    /\ IdleTree
    /\ IdleValueList

\* lines 53-65: build the graph and the initial root candidates
TopoStart ==
    /\ tpc = "start"
    /\ graph' = [a \in DOMAIN assignments |-> references(a)]
    /\ roots' = SelectSeq(KeysInOrder(graph'),
                          LAMBDA name : ~has_predecessor(graph', name))
    /\ topological_order' = <<>>
    /\ tpc' = "loop"
    /\ UNCHANGED <<assignments, tresult, outsideTopo>>

\* lines 67-77: one iteration of `while roots`
TopoLoop ==
    /\ tpc = "loop"
    /\ roots # <<>>
    /\ LET root == roots[Len(roots)]
           rest == SubSeq(roots, 1, Len(roots) - 1)
           successors == GraphPopValue(graph, root)
           g2 == GraphPopRest(graph, root)
       IN /\ graph' = g2
          /\ \E ext \in Orders({s \in successors : ~has_predecessor(g2, s)}) :
                roots' = rest \o ext
          /\ topological_order' = InsertFront(topological_order, root)
    /\ UNCHANGED <<assignments, tpc, tresult, outsideTopo>>

\* lines 79-80: names are left in the graph, raise the cycle error
TopoRaise ==
    /\ tpc = "loop"
    /\ roots = <<>>
    /\ DOMAIN graph # {}
    /\ tpc' = "raised"
    /\ UNCHANGED <<assignments, graph, roots, topological_order, tresult,
                   outsideTopo>>

\* lines 83-84: sort the assignments by the topological order
TopoReturn ==
    /\ tpc = "loop"
    /\ roots = <<>>
    /\ DOMAIN graph = {}
    /\ IF DOMAIN assignments \subseteq SeqToSet(topological_order)
       THEN /\ tresult' = SortedByOrder(topological_order)
            /\ tpc' = "returned"
       ELSE /\ tresult' = <<>>
            /\ tpc' = "ValueError"
    /\ UNCHANGED <<assignments, graph, roots, topological_order, outsideTopo>>

NextTopo == TopoStart \/ TopoLoop \/ TopoRaise \/ TopoReturn

SpecTopo == InitTopo /\ [][NextTopo]_vars

\* topological_sort is straight-line synchronous code: while a statement is
\* left to execute, the next one is executed.
SpecTopoFair == InitTopo /\ [][NextTopo]_vars /\ WF_vars(NextTopo)

----------------------------------------------------------------------------
\* dependency_sort

\* dict[key] = value
DictSet(d, key, value) ==
    [k \in DOMAIN d \cup {key} |-> IF k = key THEN value ELSE d[k]]

VisitedOnlyWhileOnStack(node) == node \in SeqToSet(stack)

\* `node in lowlinks` (lines 136, 158)
Visited(node) == node \in DOMAIN lowlinks

\* `successor in stack` (line 140)
OnStack(node) == node \in SeqToSet(stack)

LowlinkKept(low, successor_index) == low

\* min(lowlinks[node], index[successor]) (line 143)
LowlinkOfStackSuccessor(low, successor_index) ==
    Min(low, successor_index)

ResultPrepend(result, component) == <<component>> \o result

\* result.append(component) (line 155)
ResultAppend(result, component) == Append(result, component)

\* lines 149-152: the nodes popped off the stack down to `node`, in the
\* order they are popped
PoppedComponent(node) ==
    LET k == ListIndex(stack, node)
    IN [i \in 1..(Len(stack) - k + 1) |-> stack[Len(stack) - i + 1]]

StackAfterPop(node) == SubSeq(stack, 1, ListIndex(stack, node) - 1)

InitDep ==
    /\ assignments \in AssignmentInputs
    /\ IdleTopo
    /\ dgraph = <<>>
    /\ index_counter = 0
    /\ stack = <<>>
    /\ lowlinks = <<>>
    /\ index = <<>>
    /\ dresult = <<>>
    /\ callstack = <<>>
    /\ pending = <<>>
    /\ dpc = "start"
    /\ IdleModule
    /\ IdleProcess
    /\ IdleValueList
    /\ IdleTree

\* lines 108-124: the name lookup table, the graph and the empty locals
DepStart ==
    /\ dpc = "start"
    /\ LET assignments_by_name ==
               [n \in {reference_name(a) : a \in DOMAIN assignments} |->
                   CHOOSE a \in DOMAIN assignments : reference_name(a) = n]
       IN dgraph' = [a \in DOMAIN assignments |->
                        {assignments_by_name[r] :
                            r \in references(a) \cap DOMAIN assignments_by_name}]
    /\ index_counter' = 0
    /\ stack' = <<>>
    /\ lowlinks' = <<>>
    /\ index' = <<>>
    /\ dresult' = <<>>
    /\ callstack' = <<>>
    /\ pending' = KeysInOrder(dgraph')
    /\ dpc' = "main"
    /\ UNCHANGED <<assignments, outsideDep>>

\* lines 128-134: strongconnect(node) up to its loop over the successors;
\* `frames` are the calls that stay active below the new one
EnterStrongconnect(node, frames) ==
    /\ index' = DictSet(index, node, index_counter)
    /\ lowlinks' = DictSet(lowlinks, node, index_counter)
    /\ index_counter' = index_counter + 1
    /\ stack' = Append(stack, node)
    /\ callstack' = Append(frames,
                           [node |-> node,
                            todo |-> IF node \in DOMAIN dgraph
                                     THEN dgraph[node] ELSE {}])

\* lines 157-159: the loop yields a node not yet visited
DepMainCall ==
    /\ dpc = "main"
    /\ callstack = <<>>
    /\ pending # <<>>
    /\ ~Visited(Head(pending))
    /\ pending' = Tail(pending)
    /\ EnterStrongconnect(Head(pending), <<>>)
    /\ UNCHANGED <<assignments, outsideDep, dgraph, dresult, dpc>>

\* lines 157-158: the loop yields a node an earlier call visited
DepMainSkip ==
    /\ dpc = "main"
    /\ callstack = <<>>
    /\ pending # <<>>
    /\ Visited(Head(pending))
    /\ pending' = Tail(pending)
    /\ UNCHANGED <<assignments, outsideDep, dgraph, index_counter, stack,
                   lowlinks, index, dresult, callstack, dpc>>

Top == callstack[Len(callstack)]

Below == SubSeq(callstack, 1, Len(callstack) - 1)

TopWithout(successor) ==
    Append(Below, [Top EXCEPT !.todo = Top.todo \ {successor}])

\* lines 135-138: a successor not yet visited, recurse on it
DepRecurse ==
    /\ dpc = "main"
    /\ callstack # <<>>
    /\ \E successor \in Top.todo :
          /\ ~Visited(successor)
          /\ EnterStrongconnect(successor, TopWithout(successor))
    /\ UNCHANGED <<assignments, outsideDep, dgraph, dresult, pending, dpc>>

\* lines 140-143: a successor that is on the stack
DepStackSuccessor ==
    /\ dpc = "main"
    /\ callstack # <<>>
    /\ \E successor \in Top.todo :
          /\ Visited(successor)
          /\ OnStack(successor)
          /\ lowlinks' = DictSet(lowlinks, Top.node,
                                 LowlinkOfStackSuccessor(lowlinks[Top.node],
                                                         index[successor]))
          /\ callstack' = TopWithout(successor)
    /\ UNCHANGED <<assignments, outsideDep, dgraph, index_counter, stack,
                   index, dresult, pending, dpc>>

\* lines 136, 140: a successor visited earlier and no longer on the stack
DepDoneSuccessor ==
    /\ dpc = "main"
    /\ callstack # <<>>
    /\ \E successor \in Top.todo :
          /\ Visited(successor)
          /\ ~OnStack(successor)
          /\ callstack' = TopWithout(successor)
    /\ UNCHANGED <<assignments, outsideDep, dgraph, index_counter, stack,
                   lowlinks, index, dresult, pending, dpc>>

\* line 139, in the caller once strongconnect(node) has returned
LowlinksAfterReturn(node) ==
    IF Below = <<>> THEN lowlinks
    ELSE LET caller == Below[Len(Below)].node
         IN DictSet(lowlinks, caller,
                    Min(lowlinks[caller], lowlinks[node]))

\* lines 146-155 and the return: `node` is the root of a component
DepCloseRoot ==
    /\ dpc = "main"
    /\ callstack # <<>>
    /\ Top.todo = {}
    /\ lowlinks[Top.node] = index[Top.node]
    /\ IF OnStack(Top.node)
       THEN /\ dresult' = ResultAppend(dresult, PoppedComponent(Top.node))
            /\ stack' = StackAfterPop(Top.node)
            /\ dpc' = dpc
       ELSE /\ dresult' = dresult
            /\ stack' = <<>>
            /\ dpc' = "IndexError"
    /\ lowlinks' = LowlinksAfterReturn(Top.node)
    /\ callstack' = Below
    /\ UNCHANGED <<assignments, outsideDep, dgraph, index_counter, index,
                   pending>>

\* line 146 false and the return: `node` stays on the stack
DepCloseInner ==
    /\ dpc = "main"
    /\ callstack # <<>>
    /\ Top.todo = {}
    /\ lowlinks[Top.node] # index[Top.node]
    /\ lowlinks' = LowlinksAfterReturn(Top.node)
    /\ callstack' = Below
    /\ UNCHANGED <<assignments, outsideDep, dgraph, index_counter, stack,
                   index, dresult, pending, dpc>>

\* line 161: the loop over the graph is exhausted
DepReturn ==
    /\ dpc = "main"
    /\ callstack = <<>>
    /\ pending = <<>>
    /\ dpc' = "done"
    /\ UNCHANGED <<assignments, outsideDep, dgraph, index_counter, stack,
                   lowlinks, index, dresult, callstack, pending>>

NextDep ==
    \/ DepStart
    \/ DepMainCall
    \/ DepMainSkip
    \/ DepRecurse
    \/ DepStackSuccessor
    \/ DepDoneSuccessor
    \/ DepCloseRoot
    \/ DepCloseInner
    \/ DepReturn

SpecDep == InitDep /\ [][NextDep]_vars

----------------------------------------------------------------------------
\* Module: user_types and resolve_type_decl

\* Number of assignments in a module.
MaxAssignments == 3

\* Number of times the index-building branch of user_types() is followed.
MaxBuilds == 2

\* Number of nested resolve_type_decl calls followed (the code sets none).
MaxDepth == 5

TypeNames == {"T1", "T2", "T3"}

ReferencedType(name) == [kind |-> "ReferencedType", type_name |-> name]

SimpleType(name) == [kind |-> "SimpleType", type_name |-> name]

\* A TaggedType has the type_name of the declaration it tags.
TaggedType(decl) == [kind |-> "TaggedType", type_name |-> decl.type_name]

TypeDecls ==
    {ReferencedType(n) : n \in TypeNames}
        \cup {SimpleType("INTEGER"), TaggedType(ReferencedType("T1"))}

TypeAssignment(name, decl) ==
    [kind |-> "TypeAssignment", type_name |-> name, type_decl |-> decl]

ValueAssignment(name, decl) ==
    [kind |-> "ValueAssignment", value_name |-> name, type_decl |-> decl]

ModuleAssignments ==
    {TypeAssignment(n, d) : n \in TypeNames, d \in TypeDecls}
        \cup {ValueAssignment("v", SimpleType("INTEGER"))}

HasTypeName(decl) == decl.type_name \in TypeNames

\* isinstance(type_decl, ReferencedType) (line 259)
IsReferencedType(decl) == decl.kind = "ReferencedType"

\* lines 247-249: the index after the type assignments from position k on
\* have been entered, in order, into d
RECURSIVE IndexFrom(_, _)
IndexFrom(d, k) ==
    IF k > Len(self_assignments) THEN d
    ELSE IF self_assignments[k].kind = "TypeAssignment"
         THEN IndexFrom(DictSet(d, self_assignments[k].type_name,
                                self_assignments[k].type_decl), k + 1)
         ELSE IndexFrom(d, k + 1)

\* Module.__init__ (lines 235-242)
InitModule ==
    /\ assignments = <<>>
    /\ IdleTopo
    /\ IdleDep
    /\ self_assignments \in
          UNION {[1..n -> ModuleAssignments] : n \in 0..MaxAssignments}
    /\ self_user_types = <<>>
    /\ builds = 0
    /\ rstack = <<>>
    /\ rarg = NoDecl
    /\ rpc = "idle"
    /\ rresult = NoDecl
    /\ IdleProcess
    /\ IdleValueList
    /\ IdleTree

\* user_types() (lines 244-251): its effect on the module; the value it
\* returns is self_user_types'
UserTypesEffect ==
    IF self_user_types = <<>>
    THEN /\ builds < MaxBuilds
         /\ self_user_types' = IndexFrom(self_user_types, 1)
         /\ builds' = builds + 1
    ELSE UNCHANGED <<self_user_types, builds>>

\* a caller calls user_types()
UserTypes ==
    /\ rpc = "idle"
    /\ UserTypesEffect
    /\ UNCHANGED <<outsideModule, self_assignments,
                   rstack, rarg, rpc, rresult>>

\* a caller calls resolve_type_decl(type_decl)
ResolveCall ==
    /\ rpc = "idle"
    /\ \E type_decl \in TypeDecls :
          /\ rstack' = <<type_decl>>
          /\ rarg' = type_decl
    /\ rpc' = "resolving"
    /\ rresult' = NoDecl
    /\ UNCHANGED <<outsideModule, self_assignments,
                   self_user_types, builds>>

\* lines 257-260: the innermost call's argument is a reference to a type of
\* the index, recurse on its declaration
ResolveRecurse ==
    /\ rpc = "resolving"
    /\ UserTypesEffect
    /\ LET type_decl == rstack[Len(rstack)]
       IN /\ IsReferencedType(type_decl)
          /\ type_decl.type_name \in DOMAIN self_user_types'
          /\ Len(rstack) < MaxDepth
          /\ rstack' = Append(rstack, self_user_types'[type_decl.type_name])
    /\ UNCHANGED <<outsideModule, self_assignments,
                   rarg, rpc, rresult>>

\* lines 257-260: the innermost call's argument is a reference to a name the
\* index does not hold, the lookup raises KeyError through all the calls
ResolveKeyError ==
    /\ rpc = "resolving"
    /\ UserTypesEffect
    /\ LET type_decl == rstack[Len(rstack)]
       IN /\ IsReferencedType(type_decl)
          /\ type_decl.type_name \notin DOMAIN self_user_types'
    /\ rstack' = <<>>
    /\ rpc' = "KeyError"
    /\ UNCHANGED <<outsideModule, self_assignments,
                   rarg, rresult>>

\* lines 257-262: the innermost call's argument is no reference, it is
\* returned, and every outer call returns what its inner call returned
ResolveReturn ==
    /\ rpc = "resolving"
    /\ UserTypesEffect
    /\ LET type_decl == rstack[Len(rstack)]
       IN /\ ~IsReferencedType(type_decl)
          /\ rresult' = type_decl
    /\ rstack' = <<>>
    /\ rpc' = "returned"
    /\ UNCHANGED <<outsideModule, self_assignments, rarg>>

\* the caller goes on after the call has returned or raised
ResolveDone ==
    /\ rpc \in {"returned", "KeyError"}
    /\ rpc' = "idle"
    /\ rarg' = NoDecl
    /\ rresult' = NoDecl
    /\ UNCHANGED <<outsideModule, self_assignments,
                   self_user_types, builds, rstack>>

NextModule ==
    \/ UserTypes
    \/ ResolveCall
    \/ ResolveRecurse
    \/ ResolveKeyError
    \/ ResolveReturn
    \/ ResolveDone

SpecModule == InitModule /\ [][NextModule]_vars

----------------------------------------------------------------------------
\* Strings of decimal digits: '%d' % n, str(n) and int(s)

DigitChars == <<"0", "1", "2", "3", "4", "5", "6", "7", "8", "9">>

RECURSIVE StrOfNat(_)
StrOfNat(n) ==
    IF n < 10 THEN <<DigitChars[n + 1]>>
    ELSE StrOfNat(n \div 10) \o <<DigitChars[(n % 10) + 1]>>

\* str(n), '%d' % n
PyStr(n) == IF n < 0 THEN <<"-">> \o StrOfNat(0 - n) ELSE StrOfNat(n)

DigitValue(c) == (CHOOSE i \in 1..10 : DigitChars[i] = c) - 1

RECURSIVE IntOfDigits(_)
IntOfDigits(s) ==
    IF s = <<>> THEN 0
    ELSE IntOfDigits(SubSeq(s, 1, Len(s) - 1)) * 10 + DigitValue(s[Len(s)])

\* int(s)
PyInt(s) == IF s[1] = "-" THEN 0 - IntOfDigits(Tail(s)) ELSE IntOfDigits(s)

----------------------------------------------------------------------------
\* The unnamed-member counter: build_semantic_model, NamedType.__init__,
\* _get_next_unnamed

\* Number of build_semantic_model invocations in the process.
MaxInvocations == 2

\* Number of NamedType nodes built in the process.
MaxNamedTypes == 10

\* Identifiers the source gives to members.
Identifiers == {<<"a">>}

CounterKept(counter) == counter

\* line 766: _unnamed_counter += 1
CounterIncremented(counter) == counter + 1

\* line 767: 'unnamed%d' % _unnamed_counter
UnnamedIdentifier(counter) == <<"unnamed">> \o PyStr(counter)

InitProcess ==
    /\ assignments = <<>>
    /\ IdleTopo
    /\ IdleDep
    /\ IdleModule
    /\ IdleValueList
    /\ IdleTree
    /\ unnamed_counter = 0
    /\ invocations = 0
    /\ named_types = <<>>

\* lines 29-33: a caller invokes build_semantic_model
BuildSemanticModel ==
    /\ invocations < MaxInvocations
    /\ invocations' = invocations + 1
    /\ UNCHANGED <<unnamed_counter, named_types, outsideProcess>>

\* lines 539-543 and 764-767: the invocation builds a NamedType whose first
\* token is a Type, an unnamed member
NamedTypeUnnamed ==
    /\ invocations >= 1
    /\ Len(named_types) < MaxNamedTypes
    /\ unnamed_counter' = CounterIncremented(unnamed_counter)
    /\ named_types' = Append(named_types,
                             [identifier |-> UnnamedIdentifier(unnamed_counter'),
                              named |-> FALSE,
                              invocation |-> invocations])
    /\ UNCHANGED <<invocations, outsideProcess>>

\* lines 539, 544-547: the invocation builds a NamedType whose first token
\* is an Identifier
NamedTypeNamed ==
    /\ invocations >= 1
    /\ Len(named_types) < MaxNamedTypes
    /\ \E identifier \in Identifiers :
          named_types' = Append(named_types,
                                [identifier |-> identifier,
                                 named |-> TRUE,
                                 invocation |-> invocations])
    /\ UNCHANGED <<unnamed_counter, invocations, outsideProcess>>

NextProcess == BuildSemanticModel \/ NamedTypeUnnamed \/ NamedTypeNamed

SpecProcess == InitProcess /\ [][NextProcess]_vars

----------------------------------------------------------------------------
\* ValueListType.__init__ and NamedValue.__init__

\* Number of named values in a value list.
MaxNamedValues == 4

None == <<"None">>

NoList == <<"NoList">>

\* Values the source gives explicitly, as the parser hands them over.
ExplicitValues == {<<"5">>, <<"9">>, <<"-", "1">>}

\* NamedValue.__init__ (lines 600-608): the value of the node
NamedValue(token) == [value |-> token]

AutoValueByPosition(position, previous) == PyStr(position)

\* lines 564-567: the value given to the NamedValue at `position` (0-based)
\* that has none; `previous` is the value of the entry before it
AutoValue(position, previous) ==
    IF position = 0 THEN PyStr(0) ELSE PyStr(PyInt(previous) + 1)

InitValueList ==
    /\ assignments = <<>>
    /\ IdleTopo
    /\ IdleDep
    /\ IdleModule
    /\ IdleProcess
    /\ IdleTree
    /\ value_tokens \in
          {NoList} \cup
          UNION {[1..n -> ExplicitValues \cup {None}] : n \in 0..MaxNamedValues}
    /\ named_values = <<>>
    /\ idx = 0
    /\ vpc = "start"

\* lines 559-561: the NamedValue nodes of the list
ValueListCreate ==
    /\ vpc = "start"
    /\ value_tokens # NoList
    /\ named_values' = [i \in 1..Len(value_tokens) |->
                           NamedValue(value_tokens[i])]
    /\ idx' = 0
    /\ vpc' = "fixup"
    /\ UNCHANGED <<value_tokens, outsideValueList>>

\* lines 568-569: no list of named values
ValueListNone ==
    /\ vpc = "start"
    /\ value_tokens = NoList
    /\ named_values' = None
    /\ vpc' = "done"
    /\ UNCHANGED <<value_tokens, idx, outsideValueList>>

\* lines 562-567: one iteration of the fix-up loop; idx is the 0-based
\* position as enumerate yields it
ValueListFixup ==
    /\ vpc = "fixup"
    /\ idx < Len(named_values)
    /\ named_values' =
          IF named_values[idx + 1].value = None
          THEN [named_values EXCEPT ![idx + 1].value =
                   AutoValue(idx, IF idx = 0 THEN None
                                  ELSE named_values[idx].value)]
          ELSE named_values
    /\ idx' = idx + 1
    /\ UNCHANGED <<value_tokens, vpc, outsideValueList>>

\* line 562: the loop is exhausted
ValueListDone ==
    /\ vpc = "fixup"
    /\ idx = Len(named_values)
    /\ vpc' = "done"
    /\ UNCHANGED <<value_tokens, named_values, idx, outsideValueList>>

NextValueList ==
    \/ ValueListCreate
    \/ ValueListNone
    \/ ValueListFixup
    \/ ValueListDone

SpecValueList == InitValueList /\ [][NextValueList]_vars

----------------------------------------------------------------------------
\* SemaNode.children / SemaNode.descendants / Assignment.references over the
\* node trees the constructors build.
\*
\* A node is a record: its class, the string its name attribute holds, and
\* vars(self), the member variables in the order __init__ assigns them. A
\* member is another sema node, a list of sema nodes, None, or a value that
\* is not a sema node (a string, a bool).

MaxNodes == 4

NodeNames == {"A", "B"}

NodeMember(n) == [tag |-> "SemaNode", ids |-> <<n>>]

ListMember(ns) == [tag |-> "list", ids |-> ns]

NoneMember == [tag |-> "None", ids |-> <<>>]

RawMember == [tag |-> "raw", ids |-> <<>>]

NodeIds == 1..Len(nodes)

\* The classes that define a method reference_name (lines 293, 309, 452,
\* 465, 630): what hasattr(d, 'reference_name') tests.
ReferenceNameClasses ==
    {"TypeAssignment", "ValueAssignment", "ReferencedType",
     "ReferencedValue", "NameForm"}

hasattr_reference_name(d) == nodes[d].class \in ReferenceNameClasses

AssignmentClasses == {"TypeAssignment", "ValueAssignment"}

\* The classes _create_sema_node returns for a 'Type' token, of those the
\* model builds.
TypeClasses == {"SimpleType", "ReferencedType", "TaggedType", "SequenceType"}

\* The members that are sema nodes, then the elements of the list members.
children(n) ==
    LET members == nodes[n].members
        single == SelectSeq(members, LAMBDA m : m.tag = "SemaNode")
        lists == SelectSeq(members, LAMBDA m : m.tag = "list")
        Flat[i \in 0..Len(lists)] ==
            IF i = 0 THEN <<>> ELSE Flat[i - 1] \o lists[i].ids
    IN [i \in 1..Len(single) |-> single[i].ids[1]] \o Flat[Len(lists)]

children_only(n) == children(n)

RECURSIVE descendants_of_children(_, _)

\* the loop of descendants() from the i-th child on
descendants_of_children(ch, i) ==
    IF i > Len(ch)
    THEN <<>>
    ELSE <<ch[i]>> \o descendants_of_children(children(ch[i]), 1)
                   \o descendants_of_children(ch, i + 1)

descendants(n) == descendants_of_children(children(n), 1)

\* Assignment.references
node_references(a) ==
    {nodes[d].name :
        d \in {e \in SeqToSet(descendants(a)) : hasattr_reference_name(e)}}

\* The nodes a node holds in its member variables, directly or in a list.
Held(p) == UNION {SeqToSet(m.ids) : m \in SeqToSet(nodes[p].members)}

\* The nodes already constructed whose parent's constructor has not yet
\* stored them: every node is created for exactly one parent (lines
\* 697-755), and an assignment belongs to the module.
Free ==
    {n \in NodeIds : /\ nodes[n].class \notin AssignmentClasses
                     /\ \A p \in NodeIds : n \notin Held(p)}

FreeOf(classes) == {n \in Free : nodes[n].class \in classes}

\* the nodes of S in the order of their construction
InOrder(S) == SelectSeq([i \in 1..Len(nodes) |-> i], LAMBDA n : n \in S)

SemaNode(class, name, members) ==
    [class |-> class, name |-> name, members |-> members]

InitTree ==
    /\ assignments = <<>>
    /\ IdleTopo
    /\ IdleDep
    /\ IdleModule
    /\ IdleProcess
    /\ IdleValueList
    /\ nodes = <<>>
    /\ ref_target = 0
    /\ ref_result = {}

Construct(node) ==
    /\ Len(nodes) < MaxNodes
    /\ nodes' = Append(nodes, node)
    /\ UNCHANGED <<ref_target, ref_result, outsideTree>>

\* ReferencedType.__init__ without a module reference: module_reference,
\* type_name
CreateReferencedType ==
    \E name \in NodeNames :
        Construct(SemaNode("ReferencedType", name, <<NoneMember, RawMember>>))

\* ReferencedValue.__init__, NameForm.__init__: name
CreateNamedLeaf ==
    \E class \in {"ReferencedValue", "NameForm"}, name \in NodeNames :
        Construct(SemaNode(class, name, <<RawMember>>))

\* SimpleType.__init__ without a constraint: constraint, type_name
CreateSimpleType ==
    Construct(SemaNode("SimpleType", "INTEGER", <<NoneMember, RawMember>>))

\* TaggedType.__init__: class_name, class_number, implicit, type_decl
CreateTaggedType ==
    \E type_decl \in FreeOf(TypeClasses) :
        Construct(SemaNode("TaggedType", "",
                           <<NoneMember, RawMember, RawMember,
                             NodeMember(type_decl)>>))

\* ComponentType.__init__ for a NamedType, without DEFAULT or with a
\* referenced value as the default: identifier, type_decl, default_value,
\* optional, components_of_type.
CreateComponentType ==
    \E type_decl \in FreeOf(TypeClasses) :
        \E default_value \in {NoneMember}
               \cup {NodeMember(v) : v \in FreeOf({"ReferencedValue"})} :
            Construct(SemaNode("ComponentType", "",
                               <<RawMember, NodeMember(type_decl),
                                 default_value, RawMember, NoneMember>>))

\* ConstructedType.__init__: type_name, components
CreateSequenceType ==
    \E components \in SUBSET FreeOf({"ComponentType"}) :
        Construct(SemaNode("SequenceType", "SEQUENCE",
                           <<RawMember, ListMember(InOrder(components))>>))

\* ObjectIdentifierValue.__init__: components
CreateObjectIdentifierValue ==
    \E components \in SUBSET FreeOf({"NameForm"}) :
        Construct(SemaNode("ObjectIdentifierValue", "",
                           <<ListMember(InOrder(components))>>))

\* TypeAssignment.__init__: type_name, type_decl
CreateTypeAssignment ==
    \E type_name \in NodeNames, type_decl \in FreeOf(TypeClasses) :
        Construct(SemaNode("TypeAssignment", type_name,
                           <<RawMember, NodeMember(type_decl)>>))

\* ValueAssignment.__init__: value_name, type_decl, value
CreateValueAssignment ==
    \E value_name \in NodeNames, type_decl \in FreeOf(TypeClasses) :
        \E value \in {RawMember}
               \cup {NodeMember(v) :
                       v \in FreeOf({"ReferencedValue",
                                     "ObjectIdentifierValue"})} :
            Construct(SemaNode("ValueAssignment", value_name,
                               <<RawMember, NodeMember(type_decl), value>>))

\* a call of references() on an assignment
References ==
    \E a \in {n \in NodeIds : nodes[n].class \in AssignmentClasses} :
        /\ ref_target' = a
        /\ ref_result' = node_references(a)
        /\ UNCHANGED <<nodes, outsideTree>>

NextTree ==
    \/ CreateReferencedType
    \/ CreateNamedLeaf
    \/ CreateSimpleType
    \/ CreateTaggedType
    \/ CreateComponentType
    \/ CreateSequenceType
    \/ CreateObjectIdentifierValue
    \/ CreateTypeAssignment
    \/ CreateValueAssignment
    \/ References

SpecTree == InitTree /\ [][NextTree]_vars

----------------------------------------------------------------------------
\* The reference relation among the input assignments, for stating the
\* ordering properties: b is reachable from a when a chain of one or more
\* references leads from a to b through assignments of the input.

DirectRefs(a) == {b \in DOMAIN assignments : b \in references(a)}

RECURSIVE ReferenceClosure(_)
ReferenceClosure(S) ==
    LET T == S \cup UNION {DirectRefs(x) : x \in S}
    IN IF T = S THEN S ELSE ReferenceClosure(T)

ReachableFrom(a) == ReferenceClosure(DirectRefs(a))

OnCycle(a) == a \in ReachableFrom(a)

HasCycle == \E a \in DOMAIN assignments : OnCycle(a)

\* C1 (as stated): in a returned order, every name an assignment refers to,
\* other than its own, is the reference name of an earlier assignment.
C1_EveryReferenceEarlier ==
    tpc = "returned" =>
        \A i \in 1..Len(tresult) :
            \A r \in references(tresult[i]) \ {reference_name(tresult[i])} :
                \E j \in 1..(i-1) : reference_name(tresult[j]) = r

\* C1 (amended): in a returned order, every name an assignment refers to,
\* other than its own, that is the reference name of an input assignment is
\* the reference name of an earlier assignment of the order.
C1_DefinedReferencesEarlier ==
    tpc = "returned" =>
        \A i \in 1..Len(tresult) :
            \A r \in references(tresult[i]) \ {reference_name(tresult[i])} :
                r \in DOMAIN assignments =>
                    \E j \in 1..(i-1) : reference_name(tresult[j]) = r

\* A returned order in which a later assignment refers to an earlier one and
\* to a name outside the input.
C1_Witness ==
    /\ tpc = "returned"
    /\ Len(tresult) >= 2
    /\ tresult[1] \in references(tresult[2])
    /\ references(tresult[2]) \ DOMAIN assignments # {}

\* The names the cycle error reports: the keys left in the graph.
Residue == DOMAIN graph

\* C2 (as stated): a cyclic input never returns an order, it raises, and the
\* names left in the graph are exactly the names that lie on a cycle.
C2_ResidueIsExactlyTheCycles ==
    (tpc \in {"raised", "returned", "ValueError"} /\ HasCycle) =>
        /\ tpc = "raised"
        /\ Residue = {a \in DOMAIN assignments : OnCycle(a)}

\* C2 (amended): a cyclic input never returns an order, it raises, and the
\* names left in the graph are exactly the names that lie on a cycle together
\* with the input names reachable from them through references; an acyclic
\* input never raises.
C2_ResidueIsCyclesAndTheirDependencies ==
    /\ (tpc \in {"raised", "returned", "ValueError"} /\ HasCycle) =>
          /\ tpc = "raised"
          /\ Residue = {a \in DOMAIN assignments :
                           \E c \in DOMAIN assignments :
                               OnCycle(c) /\ (a = c \/ a \in ReachableFrom(c))}
    /\ tpc = "raised" => HasCycle

\* A raised cycle error for a 2-node mutual reference, after a name that
\* refers to the cycle was removed from the graph as a root.
C2_Witness ==
    /\ tpc = "raised"
    /\ \E a, b \in Residue :
          a # b /\ b \in references(a) /\ a \in references(b)
    /\ DOMAIN assignments \ Residue # {}

----------------------------------------------------------------------------
\* dependency_sort: the returned components

\* The positions of the components that hold assignment a.
ComponentsOf(a) ==
    {i \in 1..Len(dresult) : a \in SeqToSet(dresult[i])}

\* The number of times a occurs in the concatenation of the components.
Occurrences(a) ==
    Cardinality({<<i, k>> \in (1..Len(dresult)) \X (1..MaxNames + 1) :
                    k <= Len(dresult[i]) /\ dresult[i][k] = a})

\* ReachableFrom, for every input assignment at once.
Reachability == [a \in DOMAIN assignments |-> ReachableFrom(a)]

\* C3: dependency_sort fails on no input (no pop of an empty stack, every
\* node looked up in index or lowlinks is a key of it, and the node a call
\* closes is on the stack), and the concatenation of the returned components
\* is a permutation of the input assignments: every component is non-empty
\* and holds input assignments only, and every input assignment occurs
\* exactly once.
C3_ComponentsPartitionTheInput ==
    /\ dpc # "IndexError"
    /\ DOMAIN index = DOMAIN lowlinks
    /\ SeqToSet(stack) \subseteq DOMAIN index
    /\ \A k \in 1..Len(callstack) : OnStack(callstack[k].node)
    /\ dpc = "done" =>
          /\ \A i \in 1..Len(dresult) :
                /\ Len(dresult[i]) >= 1
                /\ SeqToSet(dresult[i]) \subseteq DOMAIN assignments
          /\ \A a \in DOMAIN assignments : Occurrences(a) = 1

\* A returned result for an input with a multi-node cycle and a
\* self-referential assignment in a component of its own.
C3_Witness ==
    /\ dpc = "done"
    /\ \E i \in 1..Len(dresult) : Len(dresult[i]) > 1
    /\ \E i \in 1..Len(dresult) :
          Len(dresult[i]) = 1 /\ dresult[i][1] \in references(dresult[i][1])

\* C4: every input assignment reachable through references from a member of
\* a returned component, and not in that component, is in a component at an
\* earlier position.
C4_ComponentsInDependencyOrder ==
    dpc = "done" =>
        LET reach == Reachability
        IN \A i \in 1..Len(dresult) :
               \A a \in SeqToSet(dresult[i]) :
                   \A b \in reach[a] \ SeqToSet(dresult[i]) :
                       \E j \in 1..(i-1) : b \in SeqToSet(dresult[j])

\* A returned result of two components, one of them a two-member cycle,
\* where a member of the second refers to a member of the first.
C4_Witness ==
    /\ dpc = "done"
    /\ Len(dresult) = 2
    /\ \E i \in 1..2 : Len(dresult[i]) = 2
    /\ \E a \in SeqToSet(dresult[2]) :
          references(a) \cap SeqToSet(dresult[1]) # {}

\* C5: two different input assignments are in the same returned component
\* exactly when each reaches the other through references; so a component
\* has more than one member exactly when its members are on a common cycle.
C5_ComponentsAreTheCycles ==
    dpc = "done" =>
        LET reach == Reachability
            mutual(a, b) == b \in reach[a] /\ a \in reach[b]
        IN /\ \A a, b \in DOMAIN assignments :
                 a # b =>
                     (ComponentsOf(a) \cap ComponentsOf(b) # {}
                         <=> mutual(a, b))
           /\ \A i \in 1..Len(dresult) :
                 Len(dresult[i]) > 1 <=>
                     \E a, b \in SeqToSet(dresult[i]) :
                         a # b /\ mutual(a, b)

\* A returned result with a two-member cycle component and an assignment
\* that refers to the cycle, without being on it, in a component of its own.
C5_Witness ==
    /\ dpc = "done"
    /\ \E i \in 1..Len(dresult) : Len(dresult[i]) = 2
    /\ \E i \in 1..Len(dresult) :
          /\ Len(dresult[i]) = 1
          /\ \E j \in 1..Len(dresult) :
                /\ Len(dresult[j]) = 2
                /\ references(dresult[i][1]) \cap SeqToSet(dresult[j]) # {}

----------------------------------------------------------------------------
\* Module: what the index and a resolution should be, stated on the module's
\* assignments

TypeAssignmentsOf(name) ==
    {k \in 1..Len(self_assignments) :
        /\ self_assignments[k].kind = "TypeAssignment"
        /\ self_assignments[k].type_name = name}

\* The declaration of the last type assignment of a name.
LastDeclOf(name) ==
    self_assignments[CHOOSE k \in TypeAssignmentsOf(name) :
                        \A other \in TypeAssignmentsOf(name) : other <= k
                    ].type_decl

DefinedTypeNames == {n \in TypeNames : TypeAssignmentsOf(n) # {}}

ExpectedIndex == [n \in DefinedTypeNames |-> LastDeclOf(n)]

Undefined == [kind |-> "Undefined", type_name |-> "None"]

Cyclic == [kind |-> "Cyclic", type_name |-> "None"]

\* Where the alias chain of a declaration ends: at the first declaration
\* that is no reference, at a reference to a name without type assignment
\* (Undefined), or nowhere (Cyclic: more references than there are names).
RECURSIVE AliasChainEnd(_, _)
AliasChainEnd(decl, fuel) ==
    IF decl.kind # "ReferencedType" THEN decl
    ELSE IF decl.type_name \notin DefinedTypeNames THEN Undefined
    ELSE IF fuel = 0 THEN Cyclic
    ELSE AliasChainEnd(LastDeclOf(decl.type_name), fuel - 1)

AliasOutcome(decl) == AliasChainEnd(decl, Cardinality(TypeNames))

\* C6: resolve_type_decl on a purely cyclic alias chain is stopped by an
\* error when it detects the recursion: no call whose argument an outer
\* active call is already resolving recurses further, so the arguments of
\* the active calls below the innermost one are pairwise different.
C6_CyclicAliasIsDetected ==
    (rpc = "resolving" /\ AliasOutcome(rarg) = Cyclic) =>
        \A i, j \in 1..(Len(rstack) - 1) : i # j => rstack[i] # rstack[j]

\* C7: a returned resolution is no ReferencedType; it is the argument itself
\* when that is no ReferencedType, and else the first declaration that is no
\* reference at the end of the argument's alias chain. A resolution ends
\* with KeyError only when the chain leads to a name without type
\* assignment.
C7_ResolvesToEndOfAliasChain ==
    /\ rpc = "returned" =>
          /\ rresult.kind # "ReferencedType"
          /\ rarg.kind # "ReferencedType" => rresult = rarg
          /\ rresult = AliasOutcome(rarg)
    /\ rpc = "KeyError" => AliasOutcome(rarg) = Undefined

\* The chain T3 -> T2 -> T1 -> INTEGER resolved to the INTEGER declaration.
C7_Witness ==
    /\ rpc = "returned"
    /\ rarg = ReferencedType("T3")
    /\ DOMAIN self_user_types = TypeNames
    /\ self_user_types["T3"] = ReferencedType("T2")
    /\ self_user_types["T2"] = ReferencedType("T1")
    /\ self_user_types["T1"] = SimpleType("INTEGER")
    /\ rresult = SimpleType("INTEGER")

\* C10: the index is built once, on the first call, and never again; once
\* built it maps the name of every TypeAssignment to its declaration, the
\* last assignment's for a name assigned several times.
C10_IndexBuiltOnce ==
    /\ builds <= 1
    /\ builds >= 1 => self_user_types = ExpectedIndex

----------------------------------------------------------------------------
\* The unnamed-member counter and the value list: properties

Unnamed == {i \in 1..Len(named_types) : ~named_types[i].named}

\* C8: every unnamed member built in the process has a generated placeholder
\* ("unnamed" and the decimal digits of a number from 1 on), no two unnamed
\* members have the same placeholder, whichever build_semantic_model
\* invocations built them, and the counter is the number of unnamed members
\* built so far: it was never reset and no value was used twice.
C8_PlaceholdersNeverReused ==
    /\ \A i \in Unnamed :
          /\ Len(named_types[i].identifier) >= 2
          /\ named_types[i].identifier[1] = "unnamed"
          /\ PyInt(Tail(named_types[i].identifier)) >= 1
    /\ \A i, j \in Unnamed :
          i # j => named_types[i].identifier # named_types[j].identifier
    /\ unnamed_counter = Cardinality(Unnamed)

\* Unnamed members built by two invocations, the later one the tenth
\* unnamed member of the process.
C8_Witness ==
    \E i, j \in Unnamed :
        /\ named_types[i].invocation = 1
        /\ named_types[j].invocation = 2
        /\ named_types[j].identifier = <<"unnamed", "1", "0">>

Values == [i \in 1..Len(named_values) |-> named_values[i].value]

\* C9: after the construction of a ValueListType from a list of named
\* values every NamedValue has a value: the explicit value where the source
\* gives one, else 0 for the first entry and for a later entry the value of
\* the entry before it, as fixed up, plus 1. [A, B(5), C, D] gets
\* [0, 5, 6, 7] and [A, B, C] gets [0, 1, 2].
C9_AutoNumbering ==
    (vpc = "done" /\ value_tokens # NoList) =>
        /\ Len(named_values) = Len(value_tokens)
        /\ \A i \in 1..Len(value_tokens) :
              /\ Values[i] # None
              /\ value_tokens[i] # None => Values[i] = value_tokens[i]
              /\ value_tokens[i] = None =>
                    Values[i] = IF i = 1 THEN <<"0">>
                                ELSE PyStr(PyInt(Values[i-1]) + 1)
        /\ value_tokens = <<None, <<"5">>, None, None>> =>
              Values = <<(<<"0">>), (<<"5">>), (<<"6">>), (<<"7">>)>>
        /\ value_tokens = <<None, None, None>> =>
              Values = <<(<<"0">>), (<<"1">>), (<<"2">>)>>

\* The list [A, B(5), C, D] constructed, with the values [0, 5, 6, 7].
C9_Witness ==
    /\ vpc = "done"
    /\ value_tokens = <<None, <<"5">>, None, None>>
    /\ Values = <<(<<"0">>), (<<"5">>), (<<"6">>), (<<"7">>)>>

----------------------------------------------------------------------------
\* Containment among the constructed nodes, for stating what references()
\* collects: the nodes contained in a are the nodes a holds and the nodes
\* those hold, and so on.

RECURSIVE HeldClosure(_)

HeldClosure(S) ==
    LET T == S \cup UNION {Held(n) : n \in S}
    IN IF T = S THEN S ELSE HeldClosure(T)

Contained(a) == HeldClosure(Held(a))

AssignmentNodes == {n \in NodeIds : nodes[n].class \in AssignmentClasses}

ReferenceNamesWithin(a) ==
    {nodes[d].name : d \in {e \in Contained(a) : hasattr_reference_name(e)}}

\* C11: for every assignment a, a.descendants() are exactly the nodes
\* contained in a at any depth, a itself is not among them, and
\* a.references() is exactly the set of reference names of those of them
\* whose class has reference_name; so a's own name is in a.references() only
\* if a node contained in a refers to that name. What a call of references()
\* returned is that set.
C11_ReferencesAreDescendantReferenceNames ==
    /\ \A a \in AssignmentNodes :
        /\ SeqToSet(descendants(a)) = Contained(a)
        /\ a \notin SeqToSet(descendants(a))
        /\ node_references(a) = ReferenceNamesWithin(a)
        /\ nodes[a].name \in node_references(a)
             => \E d \in Contained(a) :
                    /\ hasattr_reference_name(d)
                    /\ nodes[d].name = nodes[a].name
    /\ ref_target # 0 => ref_result = ReferenceNamesWithin(ref_target)

\* references() was called on an assignment whose definition refers to its
\* own name, and to nothing else, in a node that is not one of its children.
C11_Witness ==
    /\ ref_target # 0
    /\ ref_result = {nodes[ref_target].name}
    /\ \A d \in SeqToSet(children(ref_target)) : ~hasattr_reference_name(d)
    /\ Len(descendants(ref_target)) >= 3

----------------------------------------------------------------------------
\* Root candidates of topological_sort.

\* Some other name of g refers to n.
ReferencedByOther(g, n) == \E k \in DOMAIN g \ {n} : n \in g[k]

\* Some name of g, n itself included, refers to n.
ReferencedByAny(g, n) == \E k \in DOMAIN g : n \in g[k]

\* A step of topological_sort that leaves it in its loop (the initial
\* selection of the roots, or one iteration): afterwards the names of the
\* remaining graph that are root candidates are exactly those that Refd says
\* nothing refers to, and an iteration adds to the candidates exactly the
\* dependencies of the removed root that Refd says nothing remaining refers
\* to.
RootCandidateStep(Refd(_, _)) ==
    tpc' = "loop" =>
        /\ \A n \in DOMAIN graph' :
              n \in SeqToSet(roots') <=> ~Refd(graph', n)
        /\ tpc = "loop" =>
              LET root == roots[Len(roots)]
                  dependencies ==
                      IF root \in DOMAIN graph THEN graph[root] ELSE {}
                  promoted ==
                      SeqToSet(roots')
                          \ SeqToSet(SubSeq(roots, 1, Len(roots) - 1))
              IN /\ promoted \subseteq dependencies
                 /\ \A d \in dependencies :
                       d \in promoted <=> ~Refd(graph', d)

\* C12 as stated: at every step a name is a root candidate iff no other
\* name's reference set in the remaining graph contains it, a name's
\* reference to itself not counting.
C12_RootCandidatesUnreferencedByOthers ==
    [][RootCandidateStep(ReferencedByOther)]_vars

\* C12 amended: at every step a name is a root candidate iff no name's
\* reference set in the remaining graph, its own included, contains it; a
\* dependency of a removed root is promoted exactly when no remaining name,
\* the dependency itself included, references it.
C12_RootCandidatesUnreferenced ==
    [][RootCandidateStep(ReferencedByAny)]_vars

\* A root has been removed, one of its dependencies has been promoted, and
\* another dependency that only itself refers to is left in the graph
\* without being a root candidate.
C12_Witness ==
    /\ tpc = "loop"
    /\ topological_order # <<>>
    /\ LET removed == topological_order[1]
       IN /\ removed \in DOMAIN assignments
          /\ \E d \in references(removed) : d \in SeqToSet(roots)
          /\ \E n \in references(removed) \cap DOMAIN graph :
                /\ n \in graph[n]
                /\ ~ReferencedByOther(graph, n)
                /\ n \notin SeqToSet(roots)

----------------------------------------------------------------------------
\* Termination of topological_sort.

\* The names taken as roots so far are pairwise different.
EachRootTakenOnce ==
    \A i, j \in 1..Len(topological_order) :
        topological_order[i] = topological_order[j] => i = j

TopoEnded == tpc \in {"returned", "raised"}

\* C13: on every input, cyclic or not, no name is ever taken as a root twice
\* and the call comes to its end: it returns an order or raises the cycle
\* error.
C13_TopologicalSortTerminates ==
    /\ []EachRootTakenOnce
    /\ <>TopoEnded

\* The call on a cyclic input has ended with the cycle error after the loop
\* took at least two roots.
C13_Witness ==
    /\ tpc = "raised"
    /\ HasCycle
    /\ Len(topological_order) >= 2

====
